---------------------------- MODULE Spec2Model ----------------------------
(***************************************************************************)
(* A model of janet-posix-spawn (src/posix-spawn.c): the spawn primitive   *)
(* primitive_pspawn, which marshals a request into native structures and   *)
(* calls posix_spawnp, and the life cycle of the Process handle it         *)
(* returns (wait, signal, close, exit-code inspection, the finalizer).     *)
(*                                                                         *)
(* The interpreter is single threaded: pc is the position of that thread.  *)
(* The child process is the operating system's: it exits or dies on its    *)
(* own schedule, and another part of the program may reap it.              *)
(***************************************************************************)
EXTENDS Integers, Sequences, FiniteSets, TLC

VARIABLES
    p,        \* the Process object: pid, close_signal, exited, wstatus
    obj,      \* who refers to the Process object
    pc,       \* position of the interpreter thread
    req,      \* argv[0..7] of the spawn call in progress
    loc,      \* the locals of primitive_pspawn
    heap,     \* native resources of the spawn call in progress
    os,       \* the kernel's view of the child process
    nspawn,   \* spawn calls made so far
    trace,    \* system calls made by the operation in progress or just ended
    ret,      \* what the operation in progress or just ended gave its caller
    hist,     \* history of the handle: reaps, waits, first exit code returned
    files     \* the caller's descriptor table: closed, cloexec or inherit

vars == <<p, obj, pc, req, loc, heap, os, nspawn, trace, ret, hist, files>>

(***************************************************************************)
(* Bounds of the model.                                                    *)
(***************************************************************************)
MaxSpawns == 2
MaxArgs == 2
MaxFileActions == 2
MaxEintr == 1
MaxWaits == 2
MaxPipes == 1

(***************************************************************************)
(* Program and platform constants.                                         *)
(***************************************************************************)
SIGTERM == 15
SIGKILL == 9
WNOHANG == 1
SIGNALED_EXIT_CODE == 129
NO_PID == -1

NULL == "NULL"
EINTR == "EINTR"
EINVAL == "EINVAL"
ECHILD == "ECHILD"
ESRCH == "ESRCH"
EPERM == "EPERM"
ENOENT == "ENOENT"
EACCES == "EACCES"

(***************************************************************************)
(* Janet values.  A scalar is [t, v, n]: its type, its printed form and,   *)
(* for a number, its value.                                                *)
(***************************************************************************)
Str(s) == [t |-> "string", v |-> s, n |-> 0]
Sym(s) == [t |-> "symbol", v |-> s, n |-> 0]
Kw(s) == [t |-> "keyword", v |-> s, n |-> 0]
File(s) == [t |-> "file", v |-> s, n |-> 0]
Nil == [t |-> "nil", v |-> "nil", n |-> 0]
Num(s, k) == [t |-> "number", v |-> s, n |-> k]

\* An indexed value (tuple or array) of items, or a scalar in its place.
Tuple(items) == [t |-> "tuple", v |-> "tuple", n |-> 0, items |-> items]
NotIndexed(x) == [t |-> x.t, v |-> x.v, n |-> x.n, items |-> <<>>]
Scalar(x) == [t |-> x.t, v |-> x.v, n |-> x.n]

SeqsUpTo(S, k) == UNION {[1..m -> S] : m \in 0..k}


(***************************************************************************)
(* The spawn request: the eight positions of primitive_pspawn's argv.      *)
(* Each position draws from a small set holding the values the code tells  *)
(* apart: well-formed ones and one of each kind it checks for.             *)
(***************************************************************************)
Cmds == {Str("sh"), Sym("sh"), Num("42", 42)}

ArgVals == {Str("a"), Sym("b"), Num("7", 7)}
ArgVecs ==
    {NotIndexed(Num("42", 42))} \cup {Tuple(s) : s \in SeqsUpTo(ArgVals, MaxArgs)}

CloseSignals ==
    {Nil, Num("-1", -1), Num("0", 0), Num("9", SIGKILL), Num("15", SIGTERM)}

\* One file action: [:dup2 f1 f2], [:close f], or a malformed one.
ValidFileActions ==
    { Tuple(<<Kw("dup2"), File("f1"), File("f2")>>),
      Tuple(<<Kw("close"), File("f1")>>) }
InvalidFileActions ==
    { Tuple(<<Kw("open"), File("f1")>>),
      Tuple(<<Kw("dup2"), File("f1")>>),
      Tuple(<<Kw("close"), File("f1"), File("f2")>>),
      Tuple(<<Kw("dup2"), File("f1"), Num("7", 7)>>),
      Tuple(<<Kw("close"), Str("a")>>),
      Tuple(<<>>),
      NotIndexed(Num("7", 7)) }
\* The loop over the file actions leaves at the first malformed element
\* (PSPAWN_ERROR is a goto), so a list is well-formed elements followed by
\* at most one malformed element.
FileActionLists ==
    LET good == SeqsUpTo(ValidFileActions, MaxFileActions)
    IN  good \cup { Append(s, x) : s \in {g \in good : Len(g) < MaxFileActions},
                                   x \in InvalidFileActions }
FileActionVals ==
    { [t |-> "nil", v |-> "nil", n |-> 0, items |-> <<>>],
      [t |-> "number", v |-> "42", n |-> 42, items |-> <<>>] }
    \cup { [t |-> "tuple", v |-> "tuple", n |-> 0, items |-> s] : s \in FileActionLists }

\* Environment strings are byte sequences; 0 is the null byte.
Bytes(b) == [t |-> "string", b |-> b]
NilSlot == [t |-> "nil", b |-> <<>>]
NumSlot == [t |-> "number", b |-> <<>>]
KV(k, x) == [k |-> k, val |-> x]
EnvDict(kvs) == [t |-> "struct", v |-> "struct", n |-> 0, kvs |-> kvs]
EnvVals ==
    { [t |-> "nil", v |-> "nil", n |-> 0, kvs |-> <<>>],
      [t |-> "number", v |-> "42", n |-> 42, kvs |-> <<>>],
      EnvDict(<<>>),
      EnvDict(<<KV(Bytes(<<75>>), Bytes(<<86>>))>>),
      EnvDict(<<KV(NilSlot, NilSlot), KV(Bytes(<<75>>), Bytes(<<86>>))>>),
      EnvDict(<<KV(Bytes(<<75>>), Bytes(<<86>>)), KV(Bytes(<<76, 76>>), Bytes(<<>>))>>),
      EnvDict(<<KV(NumSlot, Bytes(<<86>>))>>),
      EnvDict(<<KV(Bytes(<<75>>), NumSlot)>>),
      EnvDict(<<KV(Bytes(<<75, 0, 75>>), Bytes(<<86>>))>>),
      EnvDict(<<KV(Bytes(<<75>>), Bytes(<<86, 0>>))>>),
      EnvDict(<<KV(Bytes(<<75, 61>>), Bytes(<<86>>))>>) }

AttrFlagVals == {Nil, Num("5", 5), Num("13", 13), Num("256", 256)}

SigSetVals ==
    { NotIndexed(Nil), NotIndexed(Kw("all")), NotIndexed(Num("3", 3)),
      Tuple(<<>>), Tuple(<<Num("2", 2)>>), Tuple(<<Num("2", 2), Str("x")>>) }

Fields ==
    <<"cmd", "args", "close_signal", "file_actions", "env", "attr_flags",
      "sig_default", "sig_mask">>

FieldValues ==
    [ cmd |-> Cmds, args |-> ArgVecs, close_signal |-> CloseSignals,
      file_actions |-> FileActionVals, env |-> EnvVals,
      attr_flags |-> AttrFlagVals, sig_default |-> SigSetVals,
      sig_mask |-> SigSetVals ]

\* What the wrapper's spawn2 passes for (spawn ["sh"]) with no keywords,
\* except env, left nil here.
DefaultRequest ==
    [ cmd |-> Str("sh"), args |-> Tuple(<<Str("a")>>),
      close_signal |-> Num("15", SIGTERM),
      file_actions |-> [t |-> "nil", v |-> "nil", n |-> 0, items |-> <<>>],
      env |-> [t |-> "nil", v |-> "nil", n |-> 0, kvs |-> <<>>],
      attr_flags |-> Num("5", 5),
      sig_default |-> NotIndexed(Kw("all")), sig_mask |-> NotIndexed(Nil) ]

\* Every request that differs from the default one in at most two positions:
\* enough for each check to fail alone and for each pair of them to compete.
Requests ==
    UNION { UNION { { [DefaultRequest EXCEPT ![Fields[i]] = a, ![Fields[j]] = b] :
                        a \in FieldValues[Fields[i]], b \in FieldValues[Fields[j]] }
                    : j \in (i + 1)..Len(Fields) }
            : i \in 1..(Len(Fields) - 1) }

\* Well-formed requests that differ only in the close signal: the handles
\* the life cycle is explored with.
PlainRequests ==
    { [DefaultRequest EXCEPT !.close_signal = c] :
        c \in {Num("0", 0), Num("9", SIGKILL), Num("15", SIGTERM)} }

NoRequest == DefaultRequest


(***************************************************************************)
(* The kernel's side: the child process, wait statuses, waitpid and kill.  *)
(***************************************************************************)
ExitCodes == {0, 1, 128, 129}

NoChild ==
    [pid |-> NO_PID, state |-> "none", wstatus |-> 0, pending |-> 0,
     cause |-> [kind |-> "none", n |-> 0]]

\* The wait status the kernel builds for exit(code) and for death by sig.
W_EXITCODE(code, sig) == code * 256 + sig
\* The wait status of a child stopped by sig.
W_STOPCODE(sig) == sig * 256 + 127
SIGSTOP == 19

WIFEXITED(w) == (w % 128) = 0
WEXITSTATUS(w) == (w \div 256) % 256
WIFSIGNALED(w) == (w % 128) # 0 /\ (w % 128) # 127
WTERMSIG(w) == w % 128

Call(name, pid, arg, res) == [call |-> name, pid |-> pid, arg |-> arg, res |-> res]

\* n interrupted attempts of one system call.
Interrupted(name, pid, arg, n) == [k \in 1..n |-> Call(name, pid, arg, EINTR)]

\* waitpid(pid, &wstatus, flags) once it is not interrupted.  A blocking
\* call on a running child does not return: the callers wait for the child.
waitpid(o, pid, flags) ==
    IF o.pid # pid \/ o.state \in {"none", "gone"}
    THEN [ret |-> -1, errno |-> ECHILD, wstatus |-> 0, os |-> o]
    ELSE IF o.state = "zombie"
    THEN [ret |-> pid, errno |-> "none", wstatus |-> o.wstatus,
          os |-> [o EXCEPT !.state = "gone"]]
    ELSE IF o.state = "stopped"
    THEN [ret |-> pid, errno |-> "none", wstatus |-> o.wstatus,
          os |-> [o EXCEPT !.state = "running"]]
    ELSE [ret |-> 0, errno |-> "none", wstatus |-> 0, os |-> o]

CanReturn(o, pid, flags) ==
    flags = WNOHANG \/ o.pid # pid \/ o.state # "running"

\* kill(pid, sig) once it is not interrupted.  perm: the caller may signal
\* the child.  Signal 0 only probes; a zombie takes any signal and ignores it.
kill(o, pid, sig, perm) ==
    IF o.pid # pid \/ o.state \in {"none", "gone"}
    THEN [ret |-> -1, errno |-> ESRCH, os |-> o]
    ELSE IF ~perm
    THEN [ret |-> -1, errno |-> EPERM, os |-> o]
    ELSE [ret |-> 0, errno |-> "none",
          os |-> IF sig # 0 /\ o.state = "running"
                 THEN [o EXCEPT !.pending = sig] ELSE o]

(***************************************************************************)
(* The calling process: its descriptor table and its environment.          *)
(***************************************************************************)
\* Descriptors 0..2 are the standard streams; a pipe takes the two lowest
\* closed descriptors.  A Janet file is named after its descriptor.
FdNames == <<"f0", "f1", "f2", "p3", "p4", "p5", "p6", "p7", "p8">>
Fds == 0..(2 + 2 * MaxPipes)
fileno(name) == (CHOOSE i \in 1..Len(FdNames) : FdNames[i] = name) - 1

InitFiles == [d \in Fds |-> IF d <= 2 THEN "inherit" ELSE "closed"]

\* The environment of the calling process: H=/ .
environ == <<KV(Bytes(<<72>>), Bytes(<<47>>))>>

\* The descriptor table of the child before exec: the file actions applied,
\* in order, to a copy of the caller's.  dup2 leaves the target open without
\* close-on-exec, also when it is the source itself.
RECURSIVE ApplyFileActions(_, _)
ApplyFileActions(tbl, acts) ==
    IF acts = <<>> THEN tbl
    ELSE LET a == Head(acts)
             t == IF a[1] = "dup2"
                  THEN IF tbl[fileno(a[2])] = "closed" THEN tbl
                       ELSE [tbl EXCEPT ![fileno(a[3])] = "inherit"]
                  ELSE [tbl EXCEPT ![fileno(a[2])] = "closed"]
         IN  ApplyFileActions(t, Tail(acts))

\* exec closes the descriptors marked close-on-exec.
ChildFds(tbl, acts) ==
    {d \in DOMAIN tbl : ApplyFileActions(tbl, acts)[d] = "inherit"}

(***************************************************************************)
(* The wrapper module (src/posix-spawn.janet): spawn2 fills in the         *)
(* keywords that were not supplied and calls the primitive.                *)
(***************************************************************************)
\* The flags as the native module exports them (lines 527-529 of
\* posix-spawn.c), with the values of the platform's <spawn.h>.
Native_POSIX_SPAWN_RESETIDS == 1
Native_POSIX_SPAWN_SETSIGDEF == 4
Native_POSIX_SPAWN_SETSIGMASK == 8

\* Lines 3-5 of posix-spawn.janet.
POSIX_SPAWN_SETSIGMASK == Native_POSIX_SPAWN_RESETIDS
POSIX_SPAWN_SETSIGDEF == Native_POSIX_SPAWN_SETSIGDEF
POSIX_SPAWN_RESETIDS == Native_POSIX_SPAWN_RESETIDS

RECURSIVE bor(_, _)
bor(a, b) ==
    IF a = 0 THEN b
    ELSE IF b = 0 THEN a
    ELSE (IF a % 2 = 1 \/ b % 2 = 1 THEN 1 ELSE 0) + 2 * bor(a \div 2, b \div 2)

\* A Janet number and its printed form.
RECURSIVE Digits(_)
Digits(k) ==
    LET d == <<"0", "1", "2", "3", "4", "5", "6", "7", "8", "9">>
    IN  IF k < 10 THEN d[k + 1] ELSE Digits(k \div 10) \o d[(k % 10) + 1]
Number(k) == Num(Digits(k), k)

\* The keywords of a call: a keyword that is not supplied reads as nil.
NoKeywords ==
    [ cmd |-> Nil, close_signal |-> Nil,
      file_actions |-> [t |-> "nil", v |-> "nil", n |-> 0, items |-> <<>>],
      env |-> [t |-> "nil", v |-> "nil", n |-> 0, kvs |-> <<>>],
      attr_flags |-> Nil, sig_default |-> NotIndexed(Nil), sig_mask |-> NotIndexed(Nil) ]

\* (default x d)
default(x, d) == IF x.t = "nil" THEN d ELSE x

\* Lines 14-31 of posix-spawn.janet: the request spawn2 passes on.
spawn2(args, kw) ==
    [ cmd |-> default(kw.cmd, IF Len(args.items) > 0 THEN args.items[1] ELSE Nil),
      args |-> args,
      close_signal |-> default(kw.close_signal, Number(SIGTERM)),
      file_actions |-> kw.file_actions,
      env |-> default(kw.env, EnvDict(environ)),
      attr_flags |-> default(kw.attr_flags,
                             Number(bor(POSIX_SPAWN_SETSIGMASK,
                                        bor(POSIX_SPAWN_SETSIGDEF, POSIX_SPAWN_RESETIDS)))),
      sig_default |-> default(kw.sig_default, NotIndexed(Kw("all"))),
      sig_mask |-> kw.sig_mask ]

\* The calls made through the wrapper: file actions on the ends of a pipe,
\* an environment and attribute flags, each supplied or not.
WrapperFileActions ==
    { <<>>,
      << Tuple(<<Kw("dup2"), File("p3"), File("p3")>>) >>,
      << Tuple(<<Kw("dup2"), File("p4"), File("f1")>>) >>,
      << Tuple(<<Kw("close"), File("p4")>> ) >> }

WrapperKeywords ==
    { [NoKeywords EXCEPT
         !.file_actions = IF a = <<>> THEN @
                          ELSE [t |-> "tuple", v |-> "tuple", n |-> 0, items |-> a],
         !.env = v, !.attr_flags = f] :
        a \in WrapperFileActions,
        v \in { NoKeywords.env, EnvDict(<<KV(Bytes(<<75>>), Bytes(<<86>>))>>) },
        f \in { Nil, Number(13) } }

\* The files a call names.
FilesNamed(fa) ==
    UNION { { fa.items[i].items[j].v : j \in 2..Len(fa.items[i].items) }
            : i \in 1..Len(fa.items) }

\* A call can name only files that exist: the standard streams and the
\* ends of the pipes made so far.
WrapperCalls(tbl) ==
    { spawn2(Tuple(<<Str("sh")>>), kw) :
        kw \in { k \in WrapperKeywords :
                   \A f \in FilesNamed(k.file_actions) : tbl[fileno(f)] # "closed" } }

(***************************************************************************)
(* The Process object and the functions on it.                             *)
(***************************************************************************)
\* (A mutation: the object starts as that of a running child.)
NewProcess_Started ==
    [pid |-> 0, close_signal |-> SIGTERM, exited |-> 0, wstatus |-> 0]
NewProcess ==
    [pid |-> NO_PID, close_signal |-> SIGTERM, exited |-> 1, wstatus |-> 0]

\* The exit code for a death by signal (a mutation: 128 + the signal).
SignaledExitCode_BySignal(w) == 128 + WTERMSIG(w)
SignaledExitCode(w) == SIGNALED_EXIT_CODE

\* -1 stands for the error return (errno = EINVAL).
process_exit_code(pp) ==
    IF pp.exited = 0 \/ pp.pid = NO_PID THEN -1
    ELSE IF WIFEXITED(pp.wstatus) THEN WEXITSTATUS(pp.wstatus)
    ELSE IF WIFSIGNALED(pp.wstatus) THEN SignaledExitCode(pp.wstatus)
    ELSE -1

\* What a completed reap leaves in the Process (a mutation: the status is
\* stored and the exited flag is not set).
Reaped_NoFlag(pp, w) == [pp EXCEPT !.wstatus = w]
\* (Another mutation: the pid is cleared once the child is reaped.)
Reaped_PidCleared(pp, w) == [pp EXCEPT !.wstatus = w, !.exited = 1, !.pid = NO_PID]
Reaped(pp, w) == [pp EXCEPT !.wstatus = w, !.exited = 1]

\* Line 80: a poll found the child running
\* (a mutation: the result of waitpid is not looked at).
StillRunning_Ignored(flags, err) == FALSE
StillRunning(flags, err) == flags = WNOHANG /\ err = 0

\* process_wait(p, &exit, flags), with nintr interrupted attempts of waitpid
\* before the one that counts.
process_wait(pp, flags, o, nintr) ==
    IF pp.pid = NO_PID
    THEN [rc |-> -1, errno |-> EINVAL, exit |-> 0, p |-> pp, os |-> o,
          calls |-> <<>>, reaped |-> FALSE]
    ELSE IF pp.exited = 1
    THEN [rc |-> 0, errno |-> "none", exit |-> process_exit_code(pp), p |-> pp,
          os |-> o, calls |-> <<>>, reaped |-> FALSE]
    ELSE
      LET w == waitpid(o, pp.pid, flags)
          calls == Interrupted("waitpid", pp.pid, flags, nintr)
                   \o <<Call("waitpid", pp.pid, flags,
                             IF w.ret < 0 THEN w.errno
                             ELSE IF w.ret = 0 THEN "running" ELSE "reaped")>>
      IN  IF w.ret < 0
          THEN [rc |-> -1, errno |-> w.errno, exit |-> 0, p |-> pp, os |-> w.os,
                calls |-> calls, reaped |-> FALSE]
          ELSE IF StillRunning(flags, w.ret)
          THEN [rc |-> 0, errno |-> "none", exit |-> -1, p |-> pp, os |-> w.os,
                calls |-> calls, reaped |-> FALSE]
          ELSE LET q == Reaped(pp, w.wstatus)
               IN  [rc |-> 0, errno |-> "none", exit |-> process_exit_code(q),
                    p |-> q, os |-> w.os, calls |-> calls, reaped |-> TRUE]

\* The loop around kill: nintr interrupted attempts, then the one that counts.
KillLoop(o, pid, sig, nintr, perm) ==
    LET k == kill(o, pid, sig, perm)
    IN  [err |-> k.ret, errno |-> k.errno, os |-> k.os,
         calls |-> Interrupted("kill", pid, sig, nintr)
                   \o <<Call("kill", pid, sig, IF k.ret < 0 THEN k.errno ELSE "ok")>>]

\* (A mutation of process_signal: the test at line 93 is left out.)
process_signal_Unguarded(pp, sig, o, nintr, perm) ==
    LET k == KillLoop(o, pp.pid, sig, nintr, perm)
    IN  [rc |-> IF k.err < 0 THEN -1 ELSE 0,
         errno |-> k.errno, os |-> k.os, calls |-> k.calls]

process_signal(pp, sig, o, nintr, perm) ==
    IF pp.exited = 1 \/ pp.pid = NO_PID
    THEN [rc |-> 0, errno |-> "none", os |-> o, calls |-> <<>>]
    ELSE LET k == KillLoop(o, pp.pid, sig, nintr, perm)
         IN  [rc |-> IF k.err < 0 THEN -1 ELSE 0,
              errno |-> k.errno, os |-> k.os, calls |-> k.calls]


(***************************************************************************)
(* primitive_pspawn: its locals, the native resources it holds, and what   *)
(* an operation hands back to its caller.                                  *)
(***************************************************************************)
SigUniverse == {2, SIGKILL, SIGTERM}

InitLocals ==
    [ want_errorf |-> FALSE, error_msg |-> NULL, error_ctx |-> Nil,
      pcmd |-> NULL,
      pargv |-> [ptr |-> FALSE, items |-> <<>>],
      penviron |-> [ptr |-> FALSE, items |-> <<>>], nenviron |-> 0,
      pattr |-> FALSE, pfile_actions |-> FALSE,
      sig_dflt_set |-> {}, sig_mask_set |-> {},
      i |-> 0, visited |-> <<>>, spawned |-> FALSE,
      child |-> [env |-> <<>>, fds |-> {}] ]

\* attr, file_actions, argv, envp: "none", "live", "freed", or "double" when
\* released without being live.  items counts the environment entries.
InitHeap ==
    [ attr |-> "none", file_actions |-> "none", argv |-> "none", envp |-> "none",
      items_live |-> 0, items_freed |-> 0,
      actions |-> <<>>, flags |-> -1, sigdefault |-> {}, sigmask |-> {} ]

Release(st) == IF st = "live" THEN "freed" ELSE "double"

NoReturn ==
    [op |-> "none", st |-> "ok", val |-> 0, err |-> "none", ctx |-> Nil, pre |-> 1]

Returned(op, val, pre) ==
    [op |-> op, st |-> "ok", val |-> val, err |-> "none", ctx |-> Nil, pre |-> pre]
Panicked(op, msg, ctx, pre) ==
    [op |-> op, st |-> "error", val |-> 0, err |-> msg, ctx |-> ctx, pre |-> pre]
Running(op, pre) ==
    [op |-> op, st |-> "running", val |-> 0, err |-> "none", ctx |-> Nil, pre |-> pre]

InitHistory == [reaps |-> 0, waits |-> 0, first |-> -2]

\* PSPAWN_ERROR(M) and PSPAWN_ERRORF(M, V): note the error; the caller of
\* these goes to done.
PSPAWN_ERROR(l, msg) == [l EXCEPT !.error_msg = msg]
PSPAWN_ERRORF(l, msg, v) ==
    [l EXCEPT !.want_errorf = TRUE, !.error_msg = msg, !.error_ctx = Scalar(v)]

Visit(l, field) == [l EXCEPT !.visited = Append(@, field)]

arg_string(v) == IF v.t \in {"string", "symbol"} THEN v.v ELSE NULL

Init ==
    /\ p = NewProcess
    /\ obj = "none"
    /\ pc = "idle"
    /\ req = NoRequest
    /\ loc = InitLocals
    /\ heap = InitHeap
    /\ os = NoChild
    /\ nspawn = 0
    /\ trace = <<>>
    /\ ret = NoReturn
    /\ hist = InitHistory
    /\ files = InitFiles

\* Lines 174-210: a new Process object, the locals reset.  The model follows
\* one handle and one child at a time.
SpawnCall(R) ==
    /\ pc = "idle"
    /\ obj = "none"
    /\ os.state = "none"
    /\ nspawn < MaxSpawns
    /\ \E r \in R : req' = r
    /\ p' = NewProcess
    /\ obj' = "spawning"
    /\ loc' = InitLocals
    /\ heap' = InitHeap
    /\ os' = os
    /\ files' = files
    /\ nspawn' = nspawn + 1
    /\ trace' = <<>>
    /\ ret' = Running("spawn", 1)
    /\ hist' = InitHistory
    /\ pc' = "attr_init"

\* Lines 212-215.
SpawnAttrInit ==
    /\ pc = "attr_init"
    /\ \E ok \in BOOLEAN :
         IF ok
         THEN /\ loc' = [loc EXCEPT !.pattr = TRUE]
              /\ heap' = [heap EXCEPT !.attr = "live"]
              /\ pc' = "file_actions_init"
         ELSE /\ loc' = PSPAWN_ERROR(loc, "unable to init attr set")
              /\ heap' = heap
              /\ pc' = "done"
    /\ UNCHANGED <<p, obj, req, os, nspawn, trace, ret, hist, files>>

\* Lines 217-220.
SpawnFileActionsInit ==
    /\ pc = "file_actions_init"
    /\ \E ok \in BOOLEAN :
         IF ok
         THEN /\ loc' = [loc EXCEPT !.pfile_actions = TRUE]
              /\ heap' = [heap EXCEPT !.file_actions = "live"]
              /\ pc' = "cmd"
         ELSE /\ loc' = PSPAWN_ERROR(loc, "unable to init file actions set")
              /\ heap' = heap
              /\ pc' = "done"
    /\ UNCHANGED <<p, obj, req, os, nspawn, trace, ret, hist, files>>

\* Lines 223-225.
SpawnCmd ==
    /\ pc = "cmd"
    /\ LET l == Visit([loc EXCEPT !.pcmd = arg_string(req.cmd)], "cmd")
       IN  IF l.pcmd = NULL
           THEN /\ loc' = PSPAWN_ERRORF(l, "%v is not a valid command", req.cmd)
                /\ pc' = "done"
           ELSE /\ loc' = l
                /\ pc' = "args"
    /\ UNCHANGED <<p, obj, req, heap, os, nspawn, trace, ret, hist, files>>


\* Line 235: the test made on element i of the arguments after
\* pargv[i] = arg_string(args.items[i]).  It reads pcmd, not pargv[i].
ArgRejected(l, i) == l.pcmd = NULL

\* Lines 227-237.  janet_getindexed panics on a value that is not indexed:
\* the function is left at once, without passing through done.
SpawnArgs ==
    /\ pc = "args"
    /\ LET l == Visit(loc, "args")
           items == req.args.items
           bad == {i \in 1..Len(items) : ArgRejected(l, i)}
           stop == IF bad = {} THEN Len(items)
                   ELSE CHOOSE i \in bad : \A j \in bad : i <= j
           filled == [i \in 1..stop |-> arg_string(items[i])]
       IN  IF req.args.t # "tuple"
           THEN /\ loc' = l
                /\ heap' = heap
                /\ ret' = Panicked("spawn", "bad slot #1, expected array|tuple, got %v",
                                   Scalar(req.args), 1)
                /\ obj' = "garbage"
                /\ pc' = "return"
           ELSE \E ok \in BOOLEAN :
                /\ UNCHANGED <<ret, obj>>
                /\ pc' = IF ok /\ bad = {} THEN "close_signal" ELSE "done"
                /\ heap' = IF ok THEN [heap EXCEPT !.argv = "live"] ELSE heap
                /\ loc' =
                     IF ~ok THEN PSPAWN_ERROR(l, "no memory")
                     ELSE LET m == [l EXCEPT !.pargv = [ptr |-> TRUE, items |-> filled]]
                          IN  IF bad = {} THEN m
                              ELSE PSPAWN_ERRORF(m, "%v is not a valid argument",
                                                 items[stop])
    /\ UNCHANGED <<p, req, os, nspawn, trace, hist, files>>

\* Lines 239-246.
SpawnCloseSignal ==
    /\ pc = "close_signal"
    /\ LET l == Visit(loc, "close_signal")
       IN  IF req.close_signal.t # "number"
           THEN /\ loc' = PSPAWN_ERROR(l, "close signal must be a number")
                /\ p' = p
                /\ pc' = "done"
           ELSE IF req.close_signal.n = -1
           THEN /\ loc' = PSPAWN_ERROR(l, "invalid value for :close-signal")
                /\ p' = p
                /\ pc' = "done"
           ELSE /\ loc' = l
                /\ p' = [p EXCEPT !.close_signal = req.close_signal.n]
                /\ pc' = "file_actions"
    /\ UNCHANGED <<obj, req, heap, os, nspawn, trace, ret, hist, files>>

\* Lines 249-255: the file actions as a whole, before the loop.
SpawnFileActions ==
    /\ pc = "file_actions"
    /\ LET l == Visit(loc, "file_actions")
       IN  IF req.file_actions.t = "nil"
           THEN /\ loc' = l
                /\ pc' = "env"
           ELSE IF req.file_actions.t # "tuple"
           THEN /\ loc' = PSPAWN_ERROR(l, "file action elements must be an indexed type")
                /\ pc' = "done"
           ELSE /\ loc' = [l EXCEPT !.i = 1]
                /\ pc' = IF Len(req.file_actions.items) = 0 THEN "env" ELSE "file_action"
    /\ UNCHANGED <<p, obj, req, heap, os, nspawn, trace, ret, hist, files>>

janet_keyeq(x, s) == x.t = "keyword" /\ x.v = s
janet_checkfile(x) == x.t = "file"

\* Lines 256-291: what one turn of the loop makes of element t.  added: the
\* native call that registers the action succeeded.
\* (A mutation: a tag that is neither dup2 nor close is skipped.)
UnknownTag_Skipped(l, r) == [l |-> l, act |-> <<>>]
UnknownTag(l, r) ==
    [l |-> PSPAWN_ERRORF(l, "%v is not a valid file action", r.items[1]), act |-> <<>>]

FileAction(l, t, added) ==
    IF t.t # "tuple"
    THEN [l |-> PSPAWN_ERROR(l, "file action elements must be an indexed type"),
          act |-> <<>>]
    ELSE IF Len(t.items) < 1
    THEN [l |-> PSPAWN_ERROR(l, "file action elements must be at least one element"),
          act |-> <<>>]
    ELSE IF janet_keyeq(t.items[1], "dup2")
    THEN IF Len(t.items) # 3
         THEN [l |-> PSPAWN_ERROR(l, "dup2 file actions have 2 files elements"),
               act |-> <<>>]
         ELSE IF ~janet_checkfile(t.items[2])
         THEN [l |-> PSPAWN_ERRORF(l, ":dup2 value must be a file, got %v", t.items[2]),
               act |-> <<>>]
         ELSE IF ~janet_checkfile(t.items[3])
         THEN [l |-> PSPAWN_ERRORF(l, ":dup2 value must be a file, got %v", t.items[3]),
               act |-> <<>>]
         ELSE IF ~added
         THEN [l |-> PSPAWN_ERROR(l, ":dup2 file action unable to determine fileno"),
               act |-> <<>>]
         ELSE [l |-> l, act |-> << <<"dup2", t.items[2].v, t.items[3].v>> >>]
    ELSE IF janet_keyeq(t.items[1], "close")
    THEN IF Len(t.items) # 2
         THEN [l |-> PSPAWN_ERROR(l, ":close file actions have 1 file"), act |-> <<>>]
         ELSE IF ~janet_checkfile(t.items[2])
         THEN [l |-> PSPAWN_ERRORF(l, ":close value must be a file, got %v", t.items[2]),
               act |-> <<>>]
         ELSE IF ~added
         THEN [l |-> PSPAWN_ERROR(l, ":close file action unable to determine fileno"),
               act |-> <<>>]
         ELSE [l |-> l, act |-> << <<"close", t.items[2].v, "-">> >>]
    ELSE UnknownTag(l, t)

\* Lines 255-292: one turn of the loop over the file actions.
SpawnFileAction ==
    /\ pc = "file_action"
    /\ \E added \in BOOLEAN :
         LET r == FileAction(loc, req.file_actions.items[loc.i], added)
         IN  /\ heap' = [heap EXCEPT !.actions = @ \o r.act]
             /\ IF r.l.error_msg # NULL
                THEN /\ loc' = r.l
                     /\ pc' = "done"
                ELSE /\ loc' = [r.l EXCEPT !.i = @ + 1]
                     /\ pc' = IF loc.i = Len(req.file_actions.items)
                              THEN "env" ELSE "file_action"
    /\ UNCHANGED <<p, obj, req, os, nspawn, trace, ret, hist, files>>


\* strlen: the bytes before the first null byte (a Janet string carries a
\* null byte after its last byte).
\* (A mutation: the length Janet keeps for the string.)
strlen_Whole(b) == Len(b)
strlen(b) ==
    IF \E i \in 1..Len(b) : b[i] = 0
    THEN (CHOOSE i \in 1..Len(b) : b[i] = 0 /\ \A j \in 1..(i - 1) : b[j] # 0) - 1
    ELSE Len(b)

\* Lines 331-337: KEY=VALUE and the terminating null byte.
envitem(keys, vals) == keys \o <<61>> \o vals \o <<0>>

\* Lines 308-339: the loop over the slots of the dictionary from slot i on.
\* failAt: the slot whose malloc fails (0: none does).
RECURSIVE EnvLoop(_, _, _, _)
EnvLoop(kvs, i, l, failAt) ==
    IF i > Len(kvs) THEN l
    ELSE LET kv == kvs[i]
         IN  IF kv.k.t = "nil" THEN EnvLoop(kvs, i + 1, l, failAt)
             ELSE IF kv.k.t # "string"
             THEN PSPAWN_ERROR(l, "environ key is not a string")
             ELSE IF kv.val.t # "string"
             THEN PSPAWN_ERROR(l, "environ value is not a string")
             ELSE IF strlen(kv.k.b) # Len(kv.k.b)
             THEN PSPAWN_ERROR(l, "environ keys cannot have embedded nulls")
             ELSE IF strlen(kv.val.b) # Len(kv.val.b)
             THEN PSPAWN_ERROR(l, "environ values cannot have embedded nulls")
             ELSE IF failAt = i
             THEN PSPAWN_ERROR(l, "no memory")
             ELSE EnvLoop(kvs, i + 1,
                          [l EXCEPT !.penviron.items = Append(@, envitem(kv.k.b, kv.val.b)),
                                    !.nenviron = @ + 1],
                          failAt)

\* Lines 295-340.
SpawnEnv ==
    /\ pc = "env"
    /\ LET l == Visit(loc, "env")
       IN  IF req.env.t = "nil"
           THEN /\ loc' = l
                /\ heap' = heap
                /\ pc' = "attr_flags"
           ELSE IF req.env.t # "struct"
           THEN /\ loc' = PSPAWN_ERRORF(l, "env must be a dictionary, got %v", req.env)
                /\ heap' = heap
                /\ pc' = "done"
           ELSE \E ok \in BOOLEAN, failAt \in 0..Len(req.env.kvs) :
                IF ~ok
                THEN /\ loc' = PSPAWN_ERROR(l, "no memory")
                     /\ heap' = heap
                     /\ pc' = "done"
                ELSE LET m == EnvLoop(req.env.kvs, 1,
                                      [l EXCEPT !.penviron = [ptr |-> TRUE, items |-> <<>>]],
                                      failAt)
                     IN  /\ loc' = m
                         /\ heap' = [heap EXCEPT !.envp = "live",
                                                 !.items_live = m.nenviron]
                         /\ pc' = IF m.error_msg # NULL THEN "done" ELSE "attr_flags"
    /\ UNCHANGED <<p, obj, req, os, nspawn, trace, ret, hist, files>>

\* The flag bits posix_spawnattr_setflags accepts.
POSIX_SPAWN_ALL_FLAGS == 255

\* Lines 342-347.
SpawnAttrFlags ==
    /\ pc = "attr_flags"
    /\ LET l == Visit(loc, "attr_flags")
       IN  IF req.attr_flags.t # "number"
           THEN /\ loc' = PSPAWN_ERRORF(l, "attr flags must be a number, got %v",
                                        req.attr_flags)
                /\ heap' = heap
                /\ pc' = "done"
           ELSE IF req.attr_flags.n \notin 0..POSIX_SPAWN_ALL_FLAGS
           THEN /\ loc' = PSPAWN_ERROR(l, "unable to set spawn attr flags")
                /\ heap' = heap
                /\ pc' = "done"
           ELSE /\ loc' = l
                /\ heap' = [heap EXCEPT !.flags = req.attr_flags.n]
                /\ pc' = "sig_sets"
    /\ UNCHANGED <<p, obj, req, os, nspawn, trace, ret, hist, files>>

\* Lines 355-368: SIGSETARG(S, N) on a set S emptied at line 349.  A value
\* that is neither nil, :all nor indexed leaves S empty.
SIGSETARG(v) ==
    IF v.t = "nil" THEN [bad |-> 0, set |-> {}]
    ELSE IF janet_keyeq(v, "all") THEN [bad |-> 0, set |-> SigUniverse]
    ELSE IF v.t = "tuple"
    THEN LET nan == {i \in 1..Len(v.items) : v.items[i].t # "number"}
             stop == IF nan = {} THEN 0 ELSE CHOOSE i \in nan : \A j \in nan : i <= j
             upto == IF nan = {} THEN Len(v.items) ELSE stop - 1
         IN  [bad |-> stop,
              set |-> {v.items[i].n : i \in 1..upto} \cap SigUniverse]
    ELSE [bad |-> 0, set |-> {}]

\* Lines 349-380: both signal sets, then posix_spawnattr_setsigdefault and
\* posix_spawnattr_setsigmask.
SpawnSigSets ==
    /\ pc = "sig_sets"
    /\ LET d == SIGSETARG(req.sig_default)
           m == SIGSETARG(req.sig_mask)
           l1 == [Visit(loc, "sig_default") EXCEPT !.sig_dflt_set = d.set]
           l2 == [Visit(l1, "sig_mask") EXCEPT !.sig_mask_set = m.set]
       IN  IF d.bad # 0
           THEN /\ loc' = PSPAWN_ERRORF(l1, "signal must be a number, got %v",
                                        req.sig_default.items[d.bad])
                /\ heap' = heap
                /\ pc' = "done"
           ELSE IF m.bad # 0
           THEN /\ loc' = PSPAWN_ERRORF(l2, "signal must be a number, got %v",
                                        req.sig_mask.items[m.bad])
                /\ heap' = heap
                /\ pc' = "done"
           ELSE \E okd \in BOOLEAN, okm \in BOOLEAN :
                IF ~okd
                THEN /\ loc' = PSPAWN_ERROR(l2, "unable to sig default")
                     /\ heap' = heap
                     /\ pc' = "done"
                ELSE IF ~okm
                THEN /\ loc' = PSPAWN_ERROR(l2, "unable to set sig mask")
                     /\ heap' = [heap EXCEPT !.sigdefault = d.set]
                     /\ pc' = "done"
                ELSE /\ loc' = l2
                     /\ heap' = [heap EXCEPT !.sigdefault = d.set, !.sigmask = m.set]
                     /\ pc' = "spawn"
    /\ UNCHANGED <<p, obj, req, os, nspawn, trace, ret, hist, files>>


\* strerror: the text of an error number.
strerror(e) ==
    CASE e = ENOENT -> "No such file or directory"
      [] e = EACCES -> "Permission denied"
      [] e = ECHILD -> "No child processes"
      [] OTHER -> "Success"

\* posix_spawnp reports a failure by its return value; what it leaves in
\* errno is not specified: the error number, or what an earlier call left.
SpawnErrors == {ENOENT, EACCES}
ErrnoValues == {"none", ECHILD} \cup SpawnErrors

\* Lines 383-384: the locals after posix_spawnp failed, errno being what it
\* is then.  (A mutation: the failure is not noted.)
SpawnFailed_NotNoted(l, errno) == l
SpawnFailed(l, errno) == PSPAWN_ERRORF(l, "spawn failed: %v", Str(strerror(errno)))

\* The environment block of k/v slots, as the loop at lines 308-339 lays it
\* out when every slot is well-formed.
EnvBlock(kvs) == [i \in 1..Len(kvs) |-> envitem(kvs[i].k.b, kvs[i].val.b)]

\* What the child finds in its environment.  With a null envp the outcome
\* is the platform's: the caller's environ, or an empty environment.
ChildEnvs(l) ==
    IF l.penviron.ptr THEN {l.penviron.items}
    ELSE {EnvBlock(environ), <<>>}

\* Lines 382-386: posix_spawnp.  The new child gets a pid of its own.
SpawnExec ==
    /\ pc = "spawn"
    /\ \E ok \in BOOLEAN, rc \in SpawnErrors, errno \in ErrnoValues,
          env \in ChildEnvs(loc) :
         IF ok
         THEN /\ p' = [p EXCEPT !.pid = nspawn, !.exited = 0]
              /\ os' = [NoChild EXCEPT !.pid = nspawn, !.state = "running"]
              /\ loc' = [loc EXCEPT !.spawned = TRUE,
                                    !.child = [env |-> env,
                                               fds |-> ChildFds(files, heap.actions)]]
              /\ trace' = Append(trace, Call("posix_spawnp", nspawn, 0, "ok"))
         ELSE /\ p' = [p EXCEPT !.pid = NO_PID]
              /\ os' = os
              /\ loc' = SpawnFailed([loc EXCEPT !.spawned = TRUE], errno)
              /\ trace' = Append(trace, Call("posix_spawnp", NO_PID, 0, rc))
    /\ pc' = "done"
    /\ UNCHANGED <<obj, req, heap, nspawn, ret, hist, files>>

\* Lines 390-407: what done releases, going by the locals.
Cleanup(h, l) ==
    [h EXCEPT
       !.items_live = IF l.penviron.ptr THEN @ - l.nenviron ELSE @,
       !.items_freed = IF l.penviron.ptr THEN @ + l.nenviron ELSE @,
       !.envp = IF l.penviron.ptr THEN Release(@) ELSE @,
       !.argv = IF l.pargv.ptr THEN Release(@) ELSE @,
       !.file_actions = IF l.pfile_actions THEN Release(@) ELSE @,
       !.attr = IF l.pattr THEN Release(@) ELSE @]

\* Lines 388-417: done: release, then panic with the error or return the
\* Process.  A Process that is not returned is garbage.
SpawnDone ==
    /\ pc = "done"
    /\ heap' = Cleanup(heap, loc)
    /\ IF loc.error_msg # NULL
       THEN /\ ret' = Panicked("spawn", loc.error_msg,
                               IF loc.want_errorf THEN loc.error_ctx ELSE Nil, 1)
            /\ obj' = "garbage"
       ELSE /\ ret' = Returned("spawn", p.pid, 1)
            /\ obj' = "caller"
    /\ pc' = "return"
    /\ UNCHANGED <<p, req, loc, os, nspawn, trace, hist, files>>

\* The call is over: its arguments and locals are gone.
SpawnReturn ==
    /\ pc = "return"
    /\ pc' = "idle"
    /\ req' = NoRequest
    /\ loc' = InitLocals
    /\ heap' = InitHeap
    /\ UNCHANGED <<p, obj, os, nspawn, trace, ret, hist, files>>

(***************************************************************************)
(* The child, on the kernel's schedule.                                    *)
(***************************************************************************)
\* The child exits by itself.
ChildExit ==
    /\ os.state = "running"
    /\ \E code \in ExitCodes :
         os' = [os EXCEPT !.state = "zombie", !.wstatus = W_EXITCODE(code, 0),
                          !.cause = [kind |-> "exit", n |-> code]]
    /\ UNCHANGED <<p, obj, pc, req, loc, heap, nspawn, trace, ret, hist, files>>

\* The child dies of the signal it was sent.
ChildDie ==
    /\ os.state = "running"
    /\ os.pending # 0
    /\ os' = [os EXCEPT !.state = "zombie", !.wstatus = W_EXITCODE(0, os.pending),
                        !.cause = [kind |-> "signal", n |-> os.pending]]
    /\ UNCHANGED <<p, obj, pc, req, loc, heap, nspawn, trace, ret, hist, files>>

\* The child has asked to be traced by its parent (PTRACE_TRACEME) and
\* stops: the kernel reports the stop to a waitpid of the parent, whatever
\* the flags.
ChildStop ==
    /\ os.state = "running"
    /\ os' = [os EXCEPT !.state = "stopped", !.wstatus = W_STOPCODE(SIGSTOP)]
    /\ UNCHANGED <<p, obj, pc, req, loc, heap, nspawn, trace, ret, hist, files>>

\* Another part of the program (a wait on any child) reaps the zombie.
ExternalReap ==
    /\ os.state = "zombie"
    /\ os' = [os EXCEPT !.state = "gone"]
    /\ UNCHANGED <<p, obj, pc, req, loc, heap, nspawn, trace, ret, hist, files>>


(***************************************************************************)
(* The operations on a Process the caller holds, and the finalizer.        *)
(***************************************************************************)
SignalArgs == {-1, 0, SIGKILL, SIGTERM}

Reaps(h, w) == [h EXCEPT !.reaps = IF w.reaped THEN @ + 1 ELSE @]

\* Lines 423-433.  The wait blocks while the child runs.
pspawn_wait ==
    /\ pc = "idle"
    /\ obj = "caller"
    /\ hist.waits < MaxWaits
    /\ p.pid = NO_PID \/ p.exited = 1 \/ CanReturn(os, p.pid, 0)
    /\ \E nintr \in 0..MaxEintr :
         LET w == process_wait(p, 0, os, nintr)
         IN  /\ p' = w.p
             /\ os' = w.os
             /\ trace' = w.calls
             /\ ret' = IF w.rc # 0
                       THEN Panicked("wait", "error waiting for process - %s",
                                     Str(w.errno), p.exited)
                       ELSE Returned("wait", w.exit, p.exited)
             /\ hist' = [Reaps(hist, w) EXCEPT
                           !.waits = @ + 1,
                           !.first = IF @ = -2 /\ w.rc = 0 THEN w.exit ELSE @]
    /\ UNCHANGED <<obj, pc, req, loc, heap, nspawn, files>>

\* Lines 435-447.  perm: whether the kernel lets the caller signal the child.
pspawn_signal ==
    /\ pc = "idle"
    /\ obj = "caller"
    /\ \E sig \in SignalArgs, nintr \in 0..MaxEintr, perm \in BOOLEAN :
         IF sig = -1
         THEN /\ ret' = Panicked("signal", "invalid signal", Nil, p.exited)
              /\ trace' = <<>>
              /\ os' = os
         ELSE LET r == process_signal(p, sig, os, nintr, perm)
              IN  /\ ret' = IF r.rc < 0
                            THEN Panicked("signal", "unable to signal process - %s",
                                          Str(r.errno), p.exited)
                            ELSE Returned("signal", 0, p.exited)
                  /\ trace' = r.calls
                  /\ os' = r.os
    /\ UNCHANGED <<p, obj, pc, req, loc, heap, nspawn, hist, files>>

\* Line 462: the flags of close's wait (a mutation: a poll).
CloseWaitFlags_Poll == WNOHANG
CloseWaitFlags == 0

\* Lines 449-460: close up to its wait.
pspawn_close ==
    /\ pc = "idle"
    /\ obj = "caller"
    /\ IF p.exited = 1
       THEN /\ ret' = Returned("close", 0, 1)
            /\ trace' = <<>>
            /\ UNCHANGED <<os, pc>>
       ELSE \E nintr \in 0..MaxEintr, perm \in BOOLEAN :
              LET r == process_signal(p, p.close_signal, os, nintr, perm)
              IN  /\ trace' = r.calls
                  /\ os' = r.os
                  /\ IF r.rc < 0
                     THEN /\ ret' = Panicked("close", "unable to signal process - %s",
                                             Str(r.errno), 0)
                          /\ pc' = pc
                     ELSE /\ ret' = Running("close", 0)
                          /\ pc' = "close_wait"
    /\ UNCHANGED <<p, obj, req, loc, heap, nspawn, hist, files>>

\* Lines 462-466: close's wait, which blocks while the child runs.
pspawn_close_wait ==
    /\ pc = "close_wait"
    /\ CanReturn(os, p.pid, CloseWaitFlags)
    /\ \E nintr \in 0..MaxEintr :
         LET w == process_wait(p, CloseWaitFlags, os, nintr)
         IN  /\ p' = w.p
             /\ os' = w.os
             /\ trace' = trace \o w.calls
             /\ ret' = IF w.rc < 0
                       THEN Panicked("close", "unable to wait for process - %s",
                                     Str(w.errno), 0)
                       ELSE Returned("close", 0, 0)
             /\ hist' = Reaps(hist, w)
    /\ pc' = "idle"
    /\ UNCHANGED <<obj, req, loc, heap, nspawn, files>>

\* Lines 146-154: the exit-code key: a poll.  val -1 stands for nil.
process_get_exit_code ==
    /\ pc = "idle"
    /\ obj = "caller"
    /\ \E nintr \in 0..MaxEintr :
         LET w == process_wait(p, WNOHANG, os, nintr)
         IN  /\ p' = w.p
             /\ os' = w.os
             /\ trace' = w.calls
             /\ ret' = IF w.rc # 0
                       THEN Panicked("exit-code", "error checking exit status: %s",
                                     Str(w.errno), p.exited)
                       ELSE Returned("exit-code", w.exit, p.exited)
             /\ hist' = Reaps(hist, w)
    /\ UNCHANGED <<obj, pc, req, loc, heap, nspawn, files>>

\* The caller lets go of the Process without closing it.
Abandon ==
    /\ pc = "idle"
    /\ obj = "caller"
    /\ obj' = "garbage"
    /\ UNCHANGED <<p, pc, req, loc, heap, os, nspawn, trace, ret, hist, files>>

\* Lines 116-118: the Process after the finalizer's wait failed
\* (a mutation: it is left as it was).
GcWaitFailed_Untouched(pp) == pp
GcWaitFailed(pp) == [pp EXCEPT !.exited = 1]

\* Lines 106-114: the finalizer up to its wait.  The result of its kill is
\* not looked at.
process_gc ==
    /\ pc = "idle"
    /\ obj = "garbage"
    /\ IF p.exited = 0 /\ p.pid # NO_PID
       THEN \E nintr \in 0..MaxEintr, perm \in BOOLEAN :
              LET k == KillLoop(os, p.pid, p.close_signal, nintr, perm)
              IN  /\ trace' = k.calls
                  /\ os' = k.os
                  /\ ret' = Running("gc", 0)
                  /\ pc' = "gc_wait"
                  /\ obj' = obj
       ELSE /\ trace' = <<>>
            /\ ret' = Returned("gc", 0, 1)
            /\ obj' = "finalized"
            /\ UNCHANGED <<os, pc>>
    /\ UNCHANGED <<p, req, loc, heap, nspawn, hist, files>>

\* Lines 115-120: the finalizer's wait, which blocks while the child runs.
process_gc_wait ==
    /\ pc = "gc_wait"
    /\ CanReturn(os, p.pid, 0)
    /\ \E nintr \in 0..MaxEintr :
         LET w == process_wait(p, 0, os, nintr)
         IN  /\ p' = IF w.rc < 0 THEN GcWaitFailed(w.p) ELSE w.p
             /\ os' = w.os
             /\ trace' = trace \o w.calls
             /\ hist' = Reaps(hist, w)
    /\ ret' = Returned("gc", 0, 0)
    /\ obj' = "finalized"
    /\ pc' = "idle"
    /\ UNCHANGED <<req, loc, heap, nspawn, files>>

\* Lines 159-161: process_gc is the finalizer of the abstract type: once it
\* has returned the collector frees the Process, and nothing of the handle
\* is left.  By then the kernel holds no child of it either.
process_free ==
    /\ pc = "idle"
    /\ obj = "finalized"
    /\ obj' = "none"
    /\ p' = NewProcess
    /\ os' = IF os.state \in {"none", "gone"} THEN NoChild ELSE os
    /\ trace' = <<>>
    /\ ret' = NoReturn
    /\ hist' = InitHistory
    /\ UNCHANGED <<pc, req, loc, heap, nspawn, files>>

(***************************************************************************)
(* pipe.                                                                   *)
(***************************************************************************)
\* Line 490: the flag pipe2 is given (a mutation: no flag).
O_CLOEXEC_Unset == "inherit"
O_CLOEXEC == "cloexec"

\* pipe(fds) and pipe2(fds, flags): descriptors r and w are open.
pipe2(tbl, r, w, flags) == [tbl EXCEPT ![r] = flags, ![w] = flags]
pipe(tbl, r, w) == pipe2(tbl, r, w, "inherit")
\* fcntl(d, F_SETFD, FD_CLOEXEC)
F_SETFD(tbl, d) == [tbl EXCEPT ![d] = "cloexec"]
close(tbl, d) == [tbl EXCEPT ![d] = "closed"]

PipesMade(tbl) == Cardinality({d \in DOMAIN tbl : d > 2 /\ tbl[d] # "closed"}) \div 2

\* The calls of pspawn_pipe that can fail, in the order they are made.
PipeCalls == <<"pipe", "fcntl0", "fcntl1", "fdopen0", "fdopen1">>

\* Lines 469-513.  apple: the build (__APPLE__ or not); fail: the call that
\* fails, 0 when none does.  (When the first fdopen fails the second is
\* still made; its result does not change the outcome.)
pspawn_pipe ==
    /\ pc = "idle"
    /\ PipesMade(files) < MaxPipes
    /\ \E apple \in BOOLEAN, fail \in 0..Len(PipeCalls) :
         LET free == {d \in DOMAIN files : files[d] = "closed"}
             r == CHOOSE d \in free : \A x \in free : d <= x
             w == CHOOSE d \in free \ {r} : \A x \in free \ {r} : d <= x
             failed == IF fail = 0 THEN "none" ELSE PipeCalls[fail]
             opened == IF apple THEN pipe(files, r, w) ELSE pipe2(files, r, w, O_CLOEXEC)
             marked == IF apple THEN F_SETFD(F_SETFD(opened, r), w) ELSE opened
         IN  IF failed = "pipe"
             THEN /\ files' = files
                  /\ ret' = Panicked("pipe", "unable to allocate pipe - %s", Nil, 1)
             ELSE IF apple /\ failed = "fcntl0"
             THEN /\ files' = close(close(opened, r), w)
                  /\ ret' = Panicked("pipe", "unable to set pipe FD_CLOEXEC - %s", Nil, 1)
             ELSE IF apple /\ failed = "fcntl1"
             THEN /\ files' = close(close(F_SETFD(opened, r), r), w)
                  /\ ret' = Panicked("pipe", "unable to set pipe FD_CLOEXEC - %s", Nil, 1)
             ELSE IF failed \in {"fdopen0", "fdopen1"}
             THEN /\ files' = close(close(marked, r), w)
                  /\ ret' = Panicked("pipe", "unable to create file objects - %s", Nil, 1)
             ELSE /\ files' = marked
                  /\ ret' = Returned("pipe", r, 1)
    /\ trace' = <<>>
    /\ UNCHANGED <<p, obj, pc, req, loc, heap, os, nspawn, hist>>

(***************************************************************************)
(* The specifications.                                                     *)
(***************************************************************************)
Next ==
    \/ SpawnCall(Requests)
    \/ SpawnAttrInit
    \/ SpawnFileActionsInit
    \/ SpawnCmd
    \/ SpawnArgs
    \/ SpawnCloseSignal
    \/ SpawnFileActions
    \/ SpawnFileAction
    \/ SpawnEnv
    \/ SpawnAttrFlags
    \/ SpawnSigSets
    \/ SpawnExec
    \/ SpawnDone
    \/ SpawnReturn
    \/ ChildExit
    \/ ChildDie
    \/ ExternalReap
    \/ pspawn_wait
    \/ pspawn_signal
    \/ pspawn_close
    \/ pspawn_close_wait
    \/ process_get_exit_code
    \/ Abandon
    \/ process_gc
    \/ process_gc_wait
    \/ process_free

Spec == Init /\ [][Next]_vars


\* The life cycle alone: well-formed requests, and the scheduling the claims
\* about termination assume: a child that was sent a signal dies of it, and
\* a wait that can return does.
LifeRequests ==
    PlainRequests \cup
    { [DefaultRequest EXCEPT
         !.file_actions = Tuple(<<Tuple(<<Kw("dup2"), File("f1"), File("f2")>>),
                                  Tuple(<<Kw("close"), File("f1")>>)>>),
         !.env = EnvDict(<<KV(Bytes(<<75>>), Bytes(<<86>>))>>)] }

NextLife ==
    \/ SpawnCall(LifeRequests)
    \/ SpawnAttrInit
    \/ SpawnFileActionsInit
    \/ SpawnCmd
    \/ SpawnArgs
    \/ SpawnCloseSignal
    \/ SpawnFileActions
    \/ SpawnFileAction
    \/ SpawnEnv
    \/ SpawnAttrFlags
    \/ SpawnSigSets
    \/ SpawnExec
    \/ SpawnDone
    \/ SpawnReturn
    \/ ChildExit
    \/ ChildDie
    \/ ExternalReap
    \/ pspawn_wait
    \/ pspawn_signal
    \/ pspawn_close
    \/ pspawn_close_wait
    \/ process_get_exit_code
    \/ Abandon
    \/ process_gc
    \/ process_gc_wait
    \/ process_free

FairSpec ==
    Init /\ [][NextLife]_vars /\ WF_vars(ChildDie) /\ WF_vars(process_gc_wait)

\* The module as it is used through its wrapper: spawn2 builds the request,
\* pipes are made, and the child may be one that has itself traced.
NextWrapper ==
    \/ SpawnCall(WrapperCalls(files))
    \/ SpawnAttrInit
    \/ SpawnFileActionsInit
    \/ SpawnCmd
    \/ SpawnArgs
    \/ SpawnCloseSignal
    \/ SpawnFileActions
    \/ SpawnFileAction
    \/ SpawnEnv
    \/ SpawnAttrFlags
    \/ SpawnSigSets
    \/ SpawnExec
    \/ SpawnDone
    \/ SpawnReturn
    \/ ChildExit
    \/ ChildDie
    \/ ChildStop
    \/ ExternalReap
    \/ pspawn_wait
    \/ pspawn_signal
    \/ pspawn_close
    \/ pspawn_close_wait
    \/ process_get_exit_code
    \/ Abandon
    \/ process_gc
    \/ process_gc_wait
    \/ process_free
    \/ pspawn_pipe

WrapperSpec == Init /\ [][NextWrapper]_vars

(***************************************************************************)
(* The claims.                                                             *)
(***************************************************************************)
Completed(calls) == SelectSeq(calls, LAMBDA c : c.res # EINTR)

\* C1: once a wait has returned an exit code, every later wait returns that
\* same code, and makes no system call when the handle is already Exited;
\* over the handle's whole life at most one waitpid reaps the child.
C1_WaitIdempotent ==
    /\ hist.reaps <= 1
    /\ (ret.op = "wait" /\ hist.first # -2) => (ret.st = "ok" /\ ret.val = hist.first)
    /\ (ret.op = "wait" /\ ret.pre = 1) => trace = <<>>

\* A second wait on a handle that was already Exited, after one reap.
C1_Witness ==
    /\ ret.op = "wait" /\ ret.st = "ok" /\ ret.pre = 1
    /\ hist.waits = 2 /\ hist.reaps = 1

\* C2: when close returns successfully the handle is Exited; from a Running
\* handle it got there by one kill of the pid with close_signal followed by
\* one blocking waitpid that reaped the child.
C2_CloseLeavesExited ==
    (ret.op = "close" /\ ret.st = "ok") =>
        /\ p.exited = 1
        /\ ret.pre = 0 =>
             Completed(trace) = << Call("kill", p.pid, p.close_signal, "ok"),
                                   Call("waitpid", p.pid, 0, "reaped") >>

\* close has returned from a handle that was Running when it was called.
C2_Witness ==
    /\ ret.op = "close" /\ ret.st = "ok" /\ ret.pre = 0
    /\ os.cause.kind = "signal"

GcDone == ret.op = "gc" /\ ret.st # "running"

C4_FailedSpawnNoHandle ==
    /\ obj = "caller" => p.pid # NO_PID
    /\ pc = "return" =>
         /\ (loc.error_msg # NULL \/ ~loc.spawned \/ p.pid = NO_PID)
               => (ret.st = "error" /\ obj = "garbage")
         /\ obj = "caller" => (ret.st = "ok" /\ os.pid = p.pid /\ os.state # "none")

\* posix_spawnp itself failed and spawn raised.
C4_Witness ==
    pc = "return" /\ loc.spawned /\ p.pid = NO_PID /\ ret.st = "error"

\* C5: a wait that returns gives the child's exit status after a normal
\* exit and 129 after a death by signal, and 129 is not what it gives for
\* a normal exit with a status in 0..128.
C5_ExitCodeOfStatus ==
    (ret.op = "wait" /\ ret.st = "ok") =>
        /\ os.cause.kind = "exit" => ret.val = os.cause.n
        /\ os.cause.kind = "signal" => ret.val = 129
        /\ (os.cause.kind = "exit" /\ os.cause.n \in 0..128) => ret.val # 129

\* wait returned for a child that died of a signal.
C5_Witness ==
    ret.op = "wait" /\ ret.st = "ok" /\ os.cause.kind = "signal"


IsText(v) == v.t \in {"string", "symbol"}

\* C6: a request whose argument vector holds a value that is neither a
\* string nor a symbol never reaches posix_spawnp, and spawn ends with an
\* error that carries the first such value.
C6_ArgumentsMustBeText ==
    (req.args.t = "tuple" /\ \E i \in 1..Len(req.args.items) : ~IsText(req.args.items[i]))
      => /\ ~loc.spawned
         /\ pc = "return" =>
              /\ ret.st = "error"
              /\ (ret.err = "%v is not a valid argument" =>
                    \E i \in 1..Len(req.args.items) :
                      /\ ~IsText(req.args.items[i])
                      /\ \A j \in 1..(i - 1) : IsText(req.args.items[j])
                      /\ ret.ctx = req.args.items[i])

LastCall == trace[Len(trace)]

\* C7: signal on a handle that is not Exited raises an error exactly when
\* its kill failed with something other than "no such process".
C7_SignalToleratesNoSuchProcess ==
    (ret.op = "signal" /\ ret.pre = 0 /\ trace # <<>>) =>
        (ret.st = "error" <=> LastCall.res \notin {"ok", ESRCH})

Gone(st) == st \in {"none", "freed"}

AllReleased(h) ==
    /\ Gone(h.attr) /\ Gone(h.file_actions) /\ Gone(h.argv) /\ Gone(h.envp)
    /\ h.items_live = 0

\* C8: when spawn hands control back, on whatever path, the attribute
\* object, the file-action object, argv, envp and every environment entry
\* acquired in the attempt have been released, each once.
C8_ReleasedOnEveryPath ==
    pc = "return" => AllReleased(heap)

TagArityErrors ==
    { "%v is not a valid file action",
      "dup2 file actions have 2 files elements",
      ":close file actions have 1 file" }

\* A file action with an unrecognised tag or the wrong number of files.
BadTagOrArity(t) ==
    /\ t.t = "tuple"
    /\ Len(t.items) >= 1
    /\ \/ ~(janet_keyeq(t.items[1], "dup2") \/ janet_keyeq(t.items[1], "close"))
       \/ janet_keyeq(t.items[1], "dup2") /\ Len(t.items) # 3
       \/ janet_keyeq(t.items[1], "close") /\ Len(t.items) # 2

HasBadFileAction(r) ==
    /\ r.file_actions.t = "tuple"
    /\ \E i \in 1..Len(r.file_actions.items) : BadTagOrArity(r.file_actions.items[i])

Rejecting == pc = "done" /\ loc.error_msg \in TagArityErrors

\* C9 as stated: at the moment a file action is rejected for its tag or
\* arity, the attempt holds no native object, no buffer and no registered
\* file action, and no child exists.
C9_RejectedBeforeAnyResource ==
    Rejecting =>
        /\ heap.attr = "none" /\ heap.file_actions = "none"
        /\ heap.argv = "none" /\ heap.envp = "none"
        /\ heap.actions = <<>>
        /\ ~loc.spawned /\ os.state = "none"

\* C9, amended: a request with such a file action never reaches posix_spawnp;
\* at the moment of rejection no child exists, while the attribute object,
\* the file-action object and argv are held (and earlier file actions may be
\* registered); all of them have been released when the error reaches the
\* caller.
C9_RejectedBeforeSpawn ==
    /\ HasBadFileAction(req) => (~loc.spawned /\ os.state = "none")
    /\ Rejecting =>
         /\ ~loc.spawned /\ os.state = "none" /\ HasBadFileAction(req)
         /\ heap.attr = "live" /\ heap.file_actions = "live" /\ heap.argv = "live"
    /\ (pc = "return" /\ ret.err \in TagArityErrors) =>
         (ret.st = "error" /\ obj = "garbage" /\ AllReleased(heap))

\* A file action is being rejected after an earlier one was registered.
C9_Witness ==
    Rejecting /\ heap.actions # <<>>

(***************************************************************************)
(* C10: what the request's positions must be, as the documentation has it, *)
(* and the position an error message belongs to.                           *)
(***************************************************************************)
GoodFileAction(t) ==
    /\ t.t = "tuple" /\ Len(t.items) >= 1 /\ ~BadTagOrArity(t)
    /\ \A i \in 2..Len(t.items) : janet_checkfile(t.items[i])

GoodEnvString(x) == x.t = "string" /\ \A i \in 1..Len(x.b) : x.b[i] # 0

GoodSigSet(v) == v.t = "tuple" => \A i \in 1..Len(v.items) : v.items[i].t = "number"

WellFormed(r, field) ==
    CASE field = "cmd" -> IsText(r.cmd)
      [] field = "args" ->
           r.args.t = "tuple" /\ \A i \in 1..Len(r.args.items) : IsText(r.args.items[i])
      [] field = "close_signal" ->
           r.close_signal.t = "number" /\ r.close_signal.n # -1
      [] field = "file_actions" ->
           \/ r.file_actions.t = "nil"
           \/ /\ r.file_actions.t = "tuple"
              /\ \A i \in 1..Len(r.file_actions.items) :
                   GoodFileAction(r.file_actions.items[i])
      [] field = "env" ->
           \/ r.env.t = "nil"
           \/ /\ r.env.t = "struct"
              /\ \A i \in 1..Len(r.env.kvs) :
                   r.env.kvs[i].k.t = "nil"
                   \/ (GoodEnvString(r.env.kvs[i].k) /\ GoodEnvString(r.env.kvs[i].val))
      [] field = "attr_flags" ->
           r.attr_flags.t = "number" /\ r.attr_flags.n \in 0..POSIX_SPAWN_ALL_FLAGS
      [] field = "sig_default" -> GoodSigSet(r.sig_default)
      [] field = "sig_mask" -> GoodSigSet(r.sig_mask)

\* The first position of the request that is not well-formed (0: none).
FirstInvalid(r) ==
    LET bad == {k \in 1..Len(Fields) : ~WellFormed(r, Fields[k])}
    IN  IF bad = {} THEN 0 ELSE CHOOSE k \in bad : \A j \in bad : k <= j

\* The errors of the operating system and of the allocator, which no
\* position of the request is to blame for.
ResourceErrors ==
    { "unable to init attr set", "unable to init file actions set", "no memory",
      ":dup2 file action unable to determine fileno",
      ":close file action unable to determine fileno",
      "unable to sig default", "unable to set sig mask", "spawn failed: %v" }

\* C10: unless the operating system or the allocator failed first, a
\* request with an invalid position ends in an error, raised while the
\* first invalid position was being processed, and no later position was
\* processed.
C10_FirstInvalidFieldReported ==
    (pc = "return" /\ FirstInvalid(req) # 0 /\ ret.err \notin ResourceErrors) =>
        /\ ret.st = "error"
        /\ loc.visited = SubSeq(Fields, 1, FirstInvalid(req))


\* What the child makes of one entry of its environment: the name is what
\* precedes the first "=", the value what follows it, up to the null byte.
ParseEnvItem(item) ==
    LET body == SubSeq(item, 1, strlen(item))
        eqs == {i \in 1..Len(body) : body[i] = 61}
        at == IF eqs = {} THEN Len(body) + 1
              ELSE CHOOSE i \in eqs : \A j \in eqs : i <= j
    IN  <<SubSeq(body, 1, at - 1), SubSeq(body, at + 1, Len(body))>>

\* The key/value pairs of a dictionary: its slots that are in use.
Mapping(kvs) ==
    { <<kvs[i].k.b, kvs[i].val.b>> : i \in {j \in 1..Len(kvs) : kvs[j].k.t # "nil"} }

\* C11: when spawn accepted a request with an environment mapping and the
\* child was spawned, the entries of the block handed to posix_spawnp, parsed
\* as KEY=VALUE, are exactly the key/value pairs of the mapping.
C11_ChildObservesMapping ==
    (pc = "done" /\ loc.spawned /\ loc.error_msg = NULL /\ req.env.t = "struct")
        => /\ loc.child.env = loc.penviron.items
           /\ {ParseEnvItem(loc.child.env[i]) : i \in 1..Len(loc.child.env)}
                = Mapping(req.env.kvs)

EmbeddedNull(x) == x.t = "string" /\ \E i \in 1..Len(x.b) : x.b[i] = 0

HasNullInEnv(r) ==
    /\ r.env.t = "struct"
    /\ \E i \in 1..Len(r.env.kvs) :
          /\ r.env.kvs[i].k.t # "nil"
          /\ EmbeddedNull(r.env.kvs[i].k) \/ EmbeddedNull(r.env.kvs[i].val)

EnvErrors ==
    { "environ key is not a string", "environ value is not a string",
      "environ keys cannot have embedded nulls",
      "environ values cannot have embedded nulls", "no memory" }

\* C12: a spawn request whose environment has a null byte inside a key or a
\* value never reaches posix_spawnp and ends with an error, an error of the
\* environment when the environment is what stopped it; and no entry of an
\* environment block ever holds a null byte before its end (nothing is cut
\* at a null byte).
C12_EmbeddedNullRejected ==
    /\ \A i \in 1..Len(loc.penviron.items) :
          LET item == loc.penviron.items[i]
          IN  \A j \in 1..(Len(item) - 1) : item[j] # 0
    /\ (obj = "spawning" \/ pc = "return") /\ HasNullInEnv(req)
          => /\ ~loc.spawned
             /\ pc = "return" => ret.st = "error"
             /\ (pc = "done" /\ loc.visited # <<>>
                    /\ loc.visited[Len(loc.visited)] = "env")
                  => loc.error_msg \in EnvErrors

C12_Witness ==
    /\ pc = "return"
    /\ HasNullInEnv(req)
    /\ ret.st = "error"
    /\ ret.err = "environ values cannot have embedded nulls"


PipeFds == {d \in Fds : d > 2}

\* The descriptors the file actions of a spawn name.
FdsNamed(acts) ==
    UNION { {fileno(acts[i][2])} \cup
            (IF acts[i][1] = "dup2" THEN {fileno(acts[i][3])} ELSE {})
            : i \in 1..Len(acts) }

\* C13: a descriptor pipe has returned is close-on-exec for as long as it is
\* open, and a child spawned afterwards holds a pipe descriptor only if a
\* file action of its spawn names that descriptor.
C13_PipeEndsNotInherited ==
    /\ \A d \in PipeFds : files[d] \in {"closed", "cloexec"}
    /\ (pc = "done" /\ loc.spawned /\ loc.error_msg = NULL)
          => (loc.child.fds \cap PipeFds) \subseteq FdsNamed(heap.actions)

C13_Witness ==
    /\ pc = "done" /\ loc.spawned /\ loc.error_msg = NULL
    /\ files[3] = "cloexec" /\ files[4] = "cloexec"
    /\ FdsNamed(heap.actions) = {4}
    /\ loc.child.fds \cap PipeFds = {}

HasFlag(n, f) == (n \div f) % 2 = 1

\* C14: a request that spawn2 builds from keywords without :attr-flags
\* carries the OR of the platform's POSIX_SPAWN_SETSIGMASK,
\* POSIX_SPAWN_SETSIGDEF and POSIX_SPAWN_RESETIDS: the set-signal-mask bit
\* is set in it.
C14_DefaultFlagsSetSigmask ==
    \A kw \in WrapperKeywords :
        (obj = "spawning" /\ kw.attr_flags.t = "nil"
           /\ req = spawn2(Tuple(<<Str("sh")>>), kw))
        => /\ req.attr_flags.n =
                bor(Native_POSIX_SPAWN_SETSIGMASK,
                    bor(Native_POSIX_SPAWN_SETSIGDEF, Native_POSIX_SPAWN_RESETIDS))
           /\ HasFlag(req.attr_flags.n, Native_POSIX_SPAWN_SETSIGMASK)

\* C16: a wait that has reaped a status which is neither a normal exit nor
\* a death by signal ends with an error, never with an exit code.
C16_OddStatusIsAnError ==
    (ret.op = "wait" /\ ret.st # "running" /\ p.pid # NO_PID /\ p.exited = 1
       /\ ~WIFEXITED(p.wstatus) /\ ~WIFSIGNALED(p.wstatus))
    => ret.st = "error"

\* C15: a spawn whose environment position is nil hands no environment
\* block to posix_spawnp and its child starts with the environment of the
\* calling process; a block is handed exactly when a mapping was supplied.
C15_NilEnvInherits ==
    (pc = "done" /\ loc.spawned /\ loc.error_msg = NULL)
        => /\ loc.penviron.ptr <=> req.env.t = "struct"
           /\ req.env.t = "nil" => loc.child.env = EnvBlock(environ)

HandleOps == {"wait", "signal", "close", "exit-code", "gc"}

\* C17: an operation on a handle that was already Exited (signal with a
\* valid signal number, close, wait, exit-code, the finalizer) makes no
\* system call; signal, close and the finalizer end without an error, and
\* the handle stays Exited.
C17_ExitedHandleLeftAlone ==
    (ret.op \in HandleOps /\ ret.pre = 1 /\ ret.err # "invalid signal")
        => /\ trace = <<>>
           /\ ret.st # "running"
           /\ ret.op \in {"signal", "close", "gc"} => ret.st = "ok"
           /\ p.exited = 1

C17_Witness ==
    /\ ret.op = "signal" /\ ret.pre = 1 /\ ret.st = "ok"
    /\ p.pid # NO_PID /\ p.exited = 1 /\ hist.reaps = 1
    /\ os.state = "gone"

\* C18: the pid of a Process changes only once, from unset to the pid of the
\* child at the successful posix_spawnp (and when the collector frees the
\* object); exited goes from true to false only in that same step, on the
\* object under construction: no operation on a handle resets it.
C18_ExitedAndPidStable ==
    [][ /\ p'.pid # p.pid
            => \/ pc = "spawn" /\ obj = "spawning" /\ p.pid = NO_PID /\ p'.exited = 0
               \/ obj = "finalized" /\ obj' = "none"
        /\ (p.exited = 1 /\ p'.exited = 0)
            => pc = "spawn" /\ obj = "spawning" /\ p.pid = NO_PID /\ p'.pid # NO_PID
      ]_vars

C18_Witness ==
    /\ ret.op = "exit-code" /\ ret.pre = 1 /\ ret.st = "ok"
    /\ p.exited = 1 /\ p.pid # NO_PID
    /\ hist.waits > 0

C20_SpawnErrorText ==
    (pc = "done" /\ loc.spawned /\ loc.error_msg # NULL)
        => /\ trace # <<>>
           /\ trace[Len(trace)].call = "posix_spawnp"
           /\ loc.error_msg = "spawn failed: %v"
           /\ loc.error_ctx.v = strerror(trace[Len(trace)].res)

\* The Process of a spawn attempt that failed: the failure is noted or has
\* been raised, and the finalizer has not run yet.
FailedAttempt ==
    \/ obj = "spawning" /\ loc.error_msg # NULL
    \/ obj = "garbage" /\ ret.op = "spawn" /\ ret.st = "error"

OnPid(calls) == SelectSeq(calls, LAMBDA c : c.call \in {"kill", "waitpid"})

\* C21: the Process of a failed spawn attempt has pid -1 and exited 1 from
\* the failure on; every step taken on it, its finalizer included, leaves
\* both as they are and calls neither kill nor waitpid; and no operation
\* ever calls kill or waitpid with the pid -1.
C21_FailedAttemptNeverSignalled ==
    /\ [](FailedAttempt => p.pid = NO_PID /\ p.exited = 1)
    /\ [][FailedAttempt => /\ p'.pid = NO_PID /\ p'.exited = 1
                           /\ OnPid(trace') = <<>>]_vars
    /\ [](\A i \in 1..Len(trace) :
             trace[i].call \in {"kill", "waitpid"} => trace[i].pid # NO_PID)

C21_Witness ==
    /\ obj = "finalized" /\ ret.op = "gc" /\ ret.st = "ok"
    /\ p.pid = NO_PID /\ p.exited = 1
    /\ os.state = "none" /\ trace = <<>>

=============================================================================
